---- MODULE Spec2Model ----
(***************************************************************************)
(* A model of spt-mod-manager: the mod cache (CacheModAccess), the remote  *)
(* resolution paths that populate it (RemoteModAccess), the installer      *)
(* (SptAccess), the per-mod update loop and the source-reference parser    *)
(* (ModKind::parse).                                                       *)
(*                                                                         *)
(* Strings are sequences of tokens.  A token is one character ("." "_"     *)
(* "-" " " "/" or a digit) or a word standing for a run of characters that *)
(* contains none of the separators the parsers look for.                   *)
(***************************************************************************)
EXTENDS Integers, Sequences, FiniteSets, TLC

VARIABLES
    cacheDirs,     \* per-mod folders that exist under the cache directory
    cacheFiles,    \* files of the cache directory: [dir, name] -> content
    cached_mods,   \* CacheModAccess.cached_mods, the in-memory index (a Vec)
    populates,     \* number of cache_mod calls made so far
    drops,         \* number of files put into the cache directory from outside
    cacheOp,       \* what the last cache operation did (history)
    archive,       \* the entries of the cached archive handed to the installer
    gameFiles,     \* files under the game root: path -> bytes
    installIndex,  \* the install_hash folder: file name -> (path -> hash)
    lastInstall,   \* the last install_mod call (history)
    mutated,       \* installed files changed on disk since the last install
    lastCheck,     \* the last is_same_installed_version call (history)
    parseInput,    \* the url, asset pattern and asset filter of a configured mod
    parseResult,   \* what ModKind::parse returned for them
    updConfig,     \* the configured mods the update loop walks
    updPos,        \* the configured mod the loop is at
    updStep,       \* the step of the loop body that runs next
    attempted,     \* configured mods whose processing began
    reported,      \* configured mods whose failure was reported
    failed,        \* configured mods one of whose steps failed
    checked,       \* configured mods is_same_installed_version was asked about
    pathFiles,     \* files under the install path a configured mod names
    now,           \* Instant::now(), in ticks of half a second
    last_request,  \* GithubModRepository.last_request
    ghStep,        \* where the one caller of get_client stands
    ghDeadline,    \* the instant the pending sleep_until waits for
    ghReleases,    \* the requests released so far (history)
    scan,          \* a rebuild of one folder that has listed it: what is left to do
    fnInput,       \* the argument a function of the program is applied to
    fnOutput       \* what the function returned for it

cacheVars == <<cacheDirs, cacheFiles, cached_mods, populates, drops, cacheOp>>

installVars == <<archive, gameFiles, installIndex, lastInstall, mutated, lastCheck>>

parseVars == <<parseInput, parseResult>>

updateVars == <<updConfig, updPos, updStep, attempted, reported, failed,
                checked, pathFiles>>

throttleVars == <<now, last_request, ghStep, ghDeadline, ghReleases>>

scanVars == <<scan>>

pureVars == <<fnInput, fnOutput>>

vars == <<cacheDirs, cacheFiles, cached_mods, populates, drops, cacheOp,
          archive, gameFiles, installIndex, lastInstall, mutated, lastCheck,
          parseInput, parseResult,
          updConfig, updPos, updStep, attempted, reported, failed,
          checked, pathFiles,
          now, last_request, ghStep, ghDeadline, ghReleases,
          scan, fnInput, fnOutput>>

\* the parts of the program a step of one part leaves alone
CacheOnly ==
    UNCHANGED <<installVars, parseVars, updateVars, throttleVars, scanVars, pureVars>>
InstallOnly ==
    UNCHANGED <<cacheVars, parseVars, updateVars, throttleVars, scanVars, pureVars>>
ParseOnly ==
    UNCHANGED <<cacheVars, installVars, updateVars, throttleVars, scanVars, pureVars>>
UpdateOnly ==
    UNCHANGED <<cacheVars, installVars, parseVars, throttleVars, scanVars, pureVars>>
ThrottleOnly ==
    UNCHANGED <<cacheVars, installVars, parseVars, updateVars, scanVars, pureVars>>
PureOnly ==
    UNCHANGED <<cacheVars, installVars, parseVars, updateVars, throttleVars, scanVars>>
ScanOnly ==
    UNCHANGED <<installVars, parseVars, updateVars, throttleVars, pureVars>>

----------------------------------------------------------------------------
(* Bounds of the model *)

MaxPopulate == 2
MaxDrop == 1
MaxEntries == 2
MaxTail == 4
MaxMods == 2
MaxTime == 8
MaxPath == 4
MaxName == 4
MaxFileName == 5

----------------------------------------------------------------------------
(* Generic helpers *)

None == [some |-> FALSE, val |-> <<>>]
Some(x) == [some |-> TRUE, val |-> x]

Range(s) == {s[i] : i \in DOMAIN s}

\* all orders in which a directory listing can return the members of S
RECURSIVE Perms(_)
Perms(S) ==
    IF S = {} THEN {<<>>}
    ELSE UNION {{<<x>> \o p : p \in Perms(S \ {x})} : x \in S}

\* the functions that map every d in D to a member of options[d]
RECURSIVE Choices(_, _)
Choices(D, options) ==
    IF D = {} THEN {<<>>}
    ELSE LET d == CHOOSE x \in D : TRUE IN
         {[x \in (DOMAIN rest) \cup {d} |-> IF x = d THEN o ELSE rest[x]]
          : rest \in Choices(D \ {d}, options), o \in options[d]}

\* a function extended or overwritten at one point
Put(f, k, v) == [x \in (DOMAIN f) \cup {k} |-> IF x = k THEN v ELSE f[x]]

\* a function restricted to the part of its domain outside D
Without(f, D) == [x \in (DOMAIN f) \ D |-> f[x]]

----------------------------------------------------------------------------
(* Mod names, versions and file names *)

\* display names of mods; the first two differ only in ' ' against '-'
NameDash == <<"a", "-", "b">>
NameSpace == <<"a", " ", "b">>
NameOther == <<"c">>
Names == {NameDash, NameSpace, NameOther}

\* versions are tuples of numeric chunks, as Versioning orders them
Versions == {<<1, 0>>, <<1, 1>>}

\* original file names of remote assets: no dot, one dot, several dots
FileNoDot == <<"f">>
FileOneDot == <<"f", ".", "zip">>
FileDots == <<"f", ".", "tar", ".", "gz">>
FileNames == {FileNoDot, FileOneDot, FileDots}

\* source references (ModKind); a GitHub reference's title is its repo
KindGhDash == "github:o/a-b"
KindGhOther == "github:o/c"
KindSpt == "sptarkov:1-a-b"
NoKind == "none"
Kinds == {KindGhDash, KindGhOther, KindSpt}

\* Ord for Versioning: chunk by chunk, numerically
VersionCmp(a, b) ==
    IF a[1] < b[1] THEN "Less"
    ELSE IF a[1] > b[1] THEN "Greater"
    ELSE IF a[2] < b[2] THEN "Less"
    ELSE IF a[2] > b[2] THEN "Greater"
    ELSE "Equal"

\* Display for Versioning
VersionToString(v) == <<ToString(v[1]), ".", ToString(v[2])>>

space_mapper(c) == IF c = " " \/ c = "-" THEN "_" ELSE c

MapChars(s) == [i \in DOMAIN s |-> space_mapper(s[i])]

\* ModName::to_file_name
NameToFileName(name) == MapChars(name)

\* ModVersion::to_file_version
to_file_version(v) == MapChars(VersionToString(v))

\* to_file_name(download): "{version}_{file name}"
to_file_name(version, file_name) == to_file_version(version) \o <<"_">> \o file_name

----------------------------------------------------------------------------
(* separate_file_and_ext: separated(0.., take_until(0.., "."), ".") *)

\* take_until(0.., "."): the tokens before the first ".", failing when
\* the input holds no "."
HasDot(s) == \E i \in DOMAIN s : s[i] = "."
FirstDot(s) == CHOOSE i \in DOMAIN s : s[i] = "." /\ \A j \in 1..(i - 1) : s[j] # "."

\* the loop of `separated` after its first element: a separator and an
\* element, backtracking to before the separator when the element fails
RECURSIVE SeparatedLoop(_, _)
SeparatedLoop(acc, rest) ==
    IF rest = <<>> \/ Head(rest) # "." THEN [separate |-> acc, remainder |-> rest]
    ELSE LET after == Tail(rest) IN
         IF ~HasDot(after) THEN [separate |-> acc, remainder |-> rest]
         ELSE LET k == FirstDot(after) IN
              SeparatedLoop(Append(acc, SubSeq(after, 1, k - 1)),
                            SubSeq(after, k, Len(after)))

Separated(s) ==
    IF ~HasDot(s) THEN [separate |-> <<>>, remainder |-> s]
    ELSE LET k == FirstDot(s) IN
         SeparatedLoop(<<SubSeq(s, 1, k - 1)>>, SubSeq(s, k, Len(s)))

\* Vec<&str>::join(".")
RECURSIVE JoinDots(_)
JoinDots(parts) ==
    IF Len(parts) = 0 THEN <<>>
    ELSE IF Len(parts) = 1 THEN parts[1]
    ELSE parts[1] \o <<".">> \o JoinDots(Tail(parts))

\* a variant of separate_file_and_ext that cuts at the first "." and keeps
\* what follows it as the extension
separate_at_first_dot(file_name) ==
    IF ~HasDot(file_name) THEN [file_name |-> file_name, file_ext |-> None]
    ELSE LET k == FirstDot(file_name) IN
         [file_name |-> SubSeq(file_name, 1, k - 1),
          file_ext |-> Some(SubSeq(file_name, k + 1, Len(file_name)))]

separate_file_and_ext(file_name) ==
    LET p == Separated(file_name) IN
    IF p.separate = <<>>
    THEN [file_name |-> p.remainder, file_ext |-> None]
    ELSE [file_name |-> JoinDots(p.separate), file_ext |-> Some(p.remainder)]

ManifestExt == <<".", "manifest">>

\* ModManifest::create_manifest_path (the file name part)
create_manifest_path(mod_file_name) ==
    separate_file_and_ext(mod_file_name).file_name \o ManifestExt

----------------------------------------------------------------------------
(* The cache directory and the in-memory index *)

\* contents of a file of the cache directory
ManifestContent(name, version, mod_kind) ==
    [kind |-> "manifest", name |-> name, version |-> version, mod_kind |-> mod_kind]
ArchiveBytes == [kind |-> "bytes", name |-> <<>>, version |-> <<0, 0>>, mod_kind |-> NoKind]
GarbageBytes == [kind |-> "garbage", name |-> <<>>, version |-> <<0, 0>>, mod_kind |-> NoKind]
TruncatedBytes ==
    [kind |-> "truncated", name |-> <<>>, version |-> <<0, 0>>, mod_kind |-> NoKind]

\* serde_json::from_slice::<ModManifest> succeeds on a serialized manifest only
ParsesAsManifest(content) == content.kind = "manifest"

PathOf(dir, name) == [dir |-> dir, name |-> name]

\* CacheFile built by get_all_files for one directory entry
CacheFile(path) ==
    LET p == separate_file_and_ext(path.name) IN
    [file_name |-> p.file_name, file_ext |-> p.file_ext, path |-> path]

\* CacheFile::is_manifest
is_manifest(cf) == cf.file_ext.some /\ cf.file_ext.val = ManifestExt

\* get_all_files: the entries of one per-mod folder
get_all_files(files, dir) == {CacheFile(p) : p \in {q \in DOMAIN files : q.dir = dir}}

\* a variant of the pairing that does not ask for a different extension
PairCandidatesAnyExt(vec, cached_file) ==
    {f \in vec : f.file_name = cached_file.file_name}

\* the files `find` can return as the pair of a manifest: same base name,
\* another extension; which one comes first is up to the directory listing
PairCandidates(vec, cached_file) ==
    {f \in vec : f.file_name = cached_file.file_name /\ f.file_ext # cached_file.file_ext}

\* a variant of the first loop that keeps a paired manifest without parsing it
KeptManifestsUnparsed(files, vec) ==
    {cf \in vec : is_manifest(cf) /\ PairCandidates(vec, cf) # {}}

\* the manifests the first loop of clean_unmanaged_files_and_build_cache keeps:
\* they have a pair and their content parses
KeptManifests(files, vec) ==
    {cf \in vec : /\ is_manifest(cf)
                  /\ PairCandidates(vec, cf) # {}
                  /\ ParsesAsManifest(files[cf.path])}

CachedModVersion(manifest, path) == [manifest |-> manifest, path |-> path]

DummyVersion == CachedModVersion(GarbageBytes, PathOf(<<>>, <<>>))
NoVersion == [some |-> FALSE, val |-> DummyVersion]

\* clean_unmanaged_files_and_build_cache on one folder: every result the
\* listing order allows, as the kept paths and the Vec<CachedModVersion>
clean_unmanaged_files_and_build_cache(files, dir) ==
    LET vec == get_all_files(files, dir)
        kept == KeptManifests(files, vec)
        pairings == Choices(kept, [m \in kept |-> PairCandidates(vec, m)])
    IN  {[to_keep |-> {m.path : m \in kept} \cup {pr[m].path : m \in kept},
          deleted |-> {cf.path : cf \in vec}
                        \ ({m.path : m \in kept} \cup {pr[m].path : m \in kept}),
          versions |-> [i \in DOMAIN order |->
                          CachedModVersion(files[order[i].path], pr[order[i]].path)]]
         : pr \in pairings, order \in Perms(kept)}

\* CachedMod::new(name, versions, mod_kind), named after the first version
CachedMod(versions) ==
    [name |-> versions[1].manifest.name,
     versions |-> versions,
     mod_kind |-> versions[1].manifest.mod_kind]

\* calculate_cache: every result the listing orders allow, as the files left
\* on disk, the deleted paths and the index
calculate_cache(dirs, files) ==
    LET choices ==
            Choices(dirs, [d \in dirs |-> clean_unmanaged_files_and_build_cache(files, d)])
    IN  UNION {
          LET deleted == UNION {ch[d].deleted : d \in dirs}
              listed == {d \in dirs : Len(ch[d].versions) > 0}
          IN  {[files |-> Without(files, deleted),
                deleted |-> deleted,
                cached_mods |-> [i \in DOMAIN order |-> CachedMod(ch[order[i]].versions)]]
               : order \in Perms(listed)}
          : ch \in choices}

----------------------------------------------------------------------------
(* Queries of CacheModAccess *)

\* Iterator::find over a Vec: the first element satisfying Test
FirstIndex(seq, Test(_)) ==
    IF \E i \in DOMAIN seq : Test(seq[i])
    THEN CHOOSE i \in DOMAIN seq : Test(seq[i]) /\ \A j \in 1..(i - 1) : ~Test(seq[j])
    ELSE 0

\* Iterator::max over the versions, by Ord for CachedModVersion (the
\* manifest's version); the last of several maxima
RECURSIVE MaxFrom(_, _, _)
MaxFrom(versions, i, best) ==
    IF i > Len(versions) THEN best
    ELSE MaxFrom(versions, i + 1,
                 IF VersionCmp(versions[i].manifest.version,
                               versions[best].manifest.version) = "Less"
                 THEN best ELSE i)

\* CachedMod::get_newest
get_newest(cached_mod) ==
    IF Len(cached_mod.versions) = 0 THEN NoVersion
    ELSE [some |-> TRUE, val |-> cached_mod.versions[MaxFrom(cached_mod.versions, 2, 1)]]

\* CachedMod::get_version
get_version(cached_mod, version) ==
    LET Is(x) == x.manifest.version = version
        i == FirstIndex(cached_mod.versions, Is)
    IN  IF i = 0 THEN NoVersion ELSE [some |-> TRUE, val |-> cached_mod.versions[i]]

\* a variant of the status mapping with the two unequal outcomes exchanged
StatusOfOrderingSwapped(ord) ==
    CASE ord = "Less" -> "OlderVersion"
      [] ord = "Equal" -> "SameVersion"
      [] ord = "Greater" -> "NewerVersion"

\* CacheModAccess::get_status: the candidate's version against the newest
StatusOfOrdering(ord) ==
    CASE ord = "Less" -> "NewerVersion"
      [] ord = "Equal" -> "SameVersion"
      [] ord = "Greater" -> "OlderVersion"

get_status(mods, name, version) ==
    LET Is(x) == x.name = name
        i == FirstIndex(mods, Is)
    IN  IF i = 0 THEN "NotCached"
        ELSE LET newest == get_newest(mods[i]) IN
             IF ~newest.some THEN "NotCached"
             ELSE StatusOfOrdering(VersionCmp(version, newest.val.manifest.version))

\* CacheModAccess::get_cached_mod
get_cached_mod(mods, name, version) ==
    LET Is(x) == x.name = name
        i == FirstIndex(mods, Is)
    IN  IF i = 0 THEN NoVersion ELSE get_version(mods[i], version)

\* CacheModAccess::get_cached_mod_from_kind
get_cached_mod_from_kind(mods, mod_kind, version) ==
    LET Is(x) == x.mod_kind = mod_kind
        i == FirstIndex(mods, Is)
    IN  IF i = 0 THEN NoVersion ELSE get_version(mods[i], version)

\* find_map(|x| x.get_version(v)) at the end of cache_mod
FindMapVersion(mods, version) ==
    LET Has(x) == get_version(x, version).some
        i == FirstIndex(mods, Has)
    IN  IF i = 0 THEN NoVersion ELSE get_version(mods[i], version)

----------------------------------------------------------------------------
(* CacheModAccess::cache_mod and the operations of the cache *)

StatusNone == "none"

\* the record kept of the last cache operation
CacheOp(op, name, version, status, downloaded, ok, fresh, rebuilt, deleted, returned) ==
    [op |-> op, name |-> name, version |-> version, status |-> status,
     downloaded |-> downloaded, ok |-> ok, fresh |-> fresh, rebuilt |-> rebuilt,
     deleted |-> deleted, returned |-> returned]

\* whether the index lists no CachedMod under this name
NothingCachedFor(mods, name) == \A i \in DOMAIN mods : mods[i].name # name

\* a variant of cache_mod that writes the two files and keeps the index it had
cache_mod_stale_index(dirs, files, mods, name, version, file_name, mod_kind) ==
    LET dir == NameToFileName(name)
        mod_file_name == to_file_name(version, file_name)
        withArchive == Put(files, PathOf(dir, mod_file_name), ArchiveBytes)
        withManifest == Put(withArchive, PathOf(dir, create_manifest_path(mod_file_name)),
                            ManifestContent(name, version, mod_kind))
        found == FindMapVersion(mods, version)
    IN  {[ok |-> found.some, dirs |-> dirs \cup {dir}, files |-> withManifest,
          cached_mods |-> mods, rebuilt |-> TRUE, deleted |-> {}, returned |-> found]}

\* cache_mod with a download that succeeds: every outcome the listing orders
\* allow
cache_mod(dirs, files, mods, name, version, file_name, mod_kind) ==
    LET dir == NameToFileName(name)
        mod_file_name == to_file_name(version, file_name)
        mod_file_path == PathOf(dir, mod_file_name)
        manifest_path == PathOf(dir, create_manifest_path(mod_file_name))
        withFolder == dirs \cup {dir}
        withArchive == Put(files, mod_file_path, ArchiveBytes)
        withManifest == Put(withArchive, manifest_path,
                            ManifestContent(name, version, mod_kind))
    IN  {LET found == FindMapVersion(o.cached_mods, version) IN
         [ok |-> found.some,
          dirs |-> withFolder, files |-> o.files,
          cached_mods |-> o.cached_mods, rebuilt |-> TRUE,
          deleted |-> o.deleted,
          returned |-> found]
         : o \in calculate_cache(withFolder, withManifest)}

\* the title a source reports: the repo of a GitHub reference, the page
\* title of a mod-hub reference
RemoteTitle(mod_kind) ==
    CASE mod_kind = KindGhDash -> NameDash
      [] mod_kind = KindGhOther -> NameOther
      [] mod_kind = KindSpt -> NameSpace

\* the file name of the asset a source serves (every remote mod keeps the
\* file name of its asset from one version to the next)
RemoteFileName(mod_kind) ==
    CASE mod_kind = KindGhDash -> FileOneDot
      [] mod_kind = KindGhOther -> FileDots
      [] mod_kind = KindSpt -> FileNoDot

\* the statuses on which get_newest_release answers from the cache
\* a variant of get_newest_release that downloads on every status but SameVersion
NewestUsesCacheSameOnly(status) == status = "SameVersion"

NewestUsesCache(status) == status \in {"SameVersion", "NewerVersion"}

\* the statuses on which get_specific_version answers from the cache
SpecificUsesCache(status) == status = "SameVersion"

\* the effect of the cache_mod call of a resolution path
Populate(op, mod_kind, name, version, file_name, status) ==
    /\ populates < MaxPopulate
    /\ \E out \in cache_mod(cacheDirs, cacheFiles, cached_mods, name, version,
                           file_name, mod_kind) :
         /\ cacheDirs' = out.dirs
         /\ cacheFiles' = out.files
         /\ cached_mods' = out.cached_mods
         /\ populates' = populates + 1
         /\ cacheOp' = CacheOp(op, name, version, status, TRUE, out.ok,
                               NothingCachedFor(cached_mods, name),
                               out.rebuilt, out.deleted, out.returned)
    /\ UNCHANGED drops
    /\ CacheOnly

\* an answer from the cache: get_cached_mod(..).context(..)?
AnswerFromCache(op, name, version, status) ==
    LET found == get_cached_mod(cached_mods, name, version) IN
    /\ cacheOp' = CacheOp(op, <<>>, <<0, 0>>, status, FALSE, found.some, FALSE, FALSE,
                          {}, NoVersion)
    /\ UNCHANGED <<cacheDirs, cacheFiles, cached_mods, populates, drops>>
    /\ CacheOnly

\* a resolution that ends before the cache is consulted
ResolutionEnds(op, ok) ==
    /\ cacheOp' = CacheOp(op, <<>>, <<0, 0>>, StatusNone, FALSE, ok, FALSE, FALSE, {},
                          NoVersion)
    /\ UNCHANGED <<cacheDirs, cacheFiles, cached_mods, populates, drops>>
    /\ CacheOnly

\* RemoteModAccess::get_newest_release, the remote query failing
GetNewestReleaseRemoteFails ==
    ResolutionEnds("newest", FALSE)

\* RemoteModAccess::get_newest_release, the remote reporting a latest version
GetNewestRelease ==
    \E mod_kind \in Kinds, version \in Versions :
        LET name == RemoteTitle(mod_kind)
            file_name == RemoteFileName(mod_kind)
            status == get_status(cached_mods, name, version)
        IN  IF NewestUsesCache(status)
            THEN AnswerFromCache("newest", name, version, status)
            ELSE Populate("newest", mod_kind, name, version, file_name, status)

\* RemoteModAccess::get_specific_version, answered by get_cached_mod_from_kind
GetSpecificVersionCached ==
    /\ \E mod_kind \in Kinds, version \in Versions :
          get_cached_mod_from_kind(cached_mods, mod_kind, version).some
    /\ ResolutionEnds("specific", TRUE)

\* RemoteModAccess::get_specific_version, the remote failing or not having
\* the version
GetSpecificVersionNoRemote ==
    /\ \E mod_kind \in Kinds, version \in Versions :
          ~get_cached_mod_from_kind(cached_mods, mod_kind, version).some
    /\ \E remote_ok \in BOOLEAN : ResolutionEnds("specific", remote_ok)

\* RemoteModAccess::get_specific_version, the remote having the version
GetSpecificVersion ==
    \E mod_kind \in Kinds, version \in Versions :
        LET name == RemoteTitle(mod_kind)
            file_name == RemoteFileName(mod_kind)
            status == get_status(cached_mods, name, version)
        IN  /\ ~get_cached_mod_from_kind(cached_mods, mod_kind, version).some
            /\ IF SpecificUsesCache(status)
               THEN AnswerFromCache("specific", name, version, status)
               ELSE Populate("specific", mod_kind, name, version, file_name, status)

\* cache_mod ending between File::create of the archive and File::create of
\* the manifest: the download fails, or the process is stopped while the
\* archive is written; the folder and a truncated archive are left behind
CacheModInterrupted ==
    /\ populates < MaxPopulate
    /\ \E mod_kind \in Kinds, version \in Versions, op \in {"newest", "specific"} :
         LET name == RemoteTitle(mod_kind)
             status == get_status(cached_mods, name, version)
             dir == NameToFileName(name)
             mod_file_path == PathOf(dir, to_file_name(version, RemoteFileName(mod_kind)))
         IN  /\ IF op = "newest" THEN ~NewestUsesCache(status)
                ELSE /\ ~get_cached_mod_from_kind(cached_mods, mod_kind, version).some
                     /\ ~SpecificUsesCache(status)
             /\ cacheDirs' = cacheDirs \cup {dir}
             /\ cacheFiles' = Put(cacheFiles, mod_file_path, TruncatedBytes)
             /\ populates' = populates + 1
             /\ cacheOp' = CacheOp(op, name, version, status, TRUE, FALSE, FALSE, FALSE,
                                   {}, NoVersion)
    /\ UNCHANGED <<cached_mods, drops>>
    /\ CacheOnly

\* a rebuild of the index from disk, as CacheModAccess::init does
Rebuild(op, dirs, files) ==
    \E out \in calculate_cache(dirs, files) :
        /\ cacheDirs' = dirs
        /\ cacheFiles' = out.files
        /\ cached_mods' = out.cached_mods
        /\ cacheOp' = CacheOp(op, <<>>, <<0, 0>>, StatusNone, FALSE, TRUE, FALSE, TRUE,
                              out.deleted, NoVersion)
        /\ UNCHANGED <<populates, drops>>
        /\ CacheOnly

\* CacheModAccess::init on the cache directory as it stands (a new run)
CacheInit == Rebuild("init", cacheDirs, cacheFiles)

\* CacheModAccess::remove_cache
RemoveCache ==
    /\ cacheDirs # {}
    /\ Rebuild("remove", {}, <<>>)

\* a file put into a per-mod folder from outside the program: one half (the
\* archive or the manifest) of a version cached by an earlier run comes back,
\* or the manifest of a cached version (of the mod "c") is cut short and no
\* longer parses
LeftoverVersion == <<2, 0>>
LeftoverHalves == {"archive", "manifest", "garbage"}

ExternalDrop ==
    /\ drops < MaxDrop
    /\ \E mod_kind \in Kinds, half \in LeftoverHalves,
          version \in Versions \cup {LeftoverVersion} :
         LET name == RemoteTitle(mod_kind)
             archive_name == to_file_name(version, RemoteFileName(mod_kind))
             path == PathOf(NameToFileName(name),
                            IF half = "archive" THEN archive_name
                            ELSE create_manifest_path(archive_name))
             content == CASE half = "archive" -> ArchiveBytes
                          [] half = "manifest" -> ManifestContent(name, version, mod_kind)
                          [] half = "garbage" -> GarbageBytes
         IN
         /\ IF half = "garbage"
            THEN /\ mod_kind = KindGhOther
                 /\ version \in Versions
                 /\ path \in DOMAIN cacheFiles
            ELSE version = LeftoverVersion /\ path \notin DOMAIN cacheFiles
         /\ cacheDirs' = cacheDirs \cup {path.dir}
         /\ cacheFiles' = Put(cacheFiles, path, content)
         /\ drops' = drops + 1
         /\ cacheOp' = CacheOp("drop", <<>>, <<0, 0>>, StatusNone, FALSE, TRUE, FALSE,
                               FALSE, {}, NoVersion)
         /\ UNCHANGED <<cached_mods, populates>>
         /\ CacheOnly

InitCache ==
    /\ cacheDirs = {}
    /\ cacheFiles = <<>>
    /\ cached_mods = <<>>
    /\ populates = 0
    /\ drops = 0
    /\ cacheOp = CacheOp("init", <<>>, <<0, 0>>, StatusNone, FALSE, TRUE, FALSE, TRUE, {},
                         NoVersion)

NextCache ==
    \/ GetNewestReleaseRemoteFails
    \/ GetNewestRelease
    \/ GetSpecificVersionCached
    \/ GetSpecificVersionNoRemote
    \/ GetSpecificVersion
    \/ CacheInit
    \/ RemoveCache
    \/ ExternalDrop

\* populates, some of them interrupted, and new runs of the program
NextInterrupt ==
    \/ GetNewestRelease
    \/ GetSpecificVersion
    \/ CacheModInterrupted
    \/ CacheInit

\* the installer at rest, for the specifications that do not move it
NoInstall == [name |-> <<>>, target |-> "none", ok |-> FALSE, written |-> {}]
NoCheck == [valid |-> FALSE, name |-> <<>>, target |-> "none", result |-> FALSE]

IdleInstall ==
    /\ archive = <<>>
    /\ gameFiles = <<>>
    /\ installIndex = <<>>
    /\ lastInstall = NoInstall
    /\ mutated = {}
    /\ lastCheck = NoCheck


----------------------------------------------------------------------------
(* The installer: SptAccess *)

\* paths of archive entries
PathServerMod == <<"user", "/", "mods", "/", "m", "/", "package.json">>
PathClientPlugin == <<"BepInEx", "/", "plugins", "/", "p.dll">>
PathReadme == <<"readme.txt">>
PathDocs == <<"docs", "/", "d.md">>
EntryPaths == {PathServerMod, PathClientPlugin, PathReadme, PathDocs}

\* decompressed bytes of an entry
EntryDatas == {<<1>>, <<2>>}

\* bytes an installed file holds after it was changed on disk
TamperedBytes == <<0>>

Targets == {"Server", "Client"}

\* titles of the mods handed to the installer
InstallNames == {NameDash, NameSpace, NameOther}

\* an archive lists every path once
Archives ==
    UNION {{a \in [1..n -> [path : EntryPaths, data : EntryDatas]] :
              \A i, j \in 1..n : a[i].path = a[j].path => i = j}
           : n \in 0..MaxEntries}

\* sha256::digest, as an injective code of the bytes
RECURSIVE Digest(_)
Digest(bytes) ==
    IF bytes = <<>> THEN 1 ELSE (bytes[1] + 1) + 4 * Digest(Tail(bytes))

\* take_until(0.., "/"): the tokens before the first "/", failing without one
HasSlash(s) == \E i \in DOMAIN s : s[i] = "/"
BeforeSlash(s) ==
    LET k == CHOOSE i \in DOMAIN s : s[i] = "/" /\ \A j \in 1..(i - 1) : s[j] # "/"
    IN  SubSeq(s, 1, k - 1)

\* file_parser: dispatch on the path's first component
file_parser(file_name) ==
    IF ~HasSlash(file_name) THEN "Unknown"
    ELSE LET top == BeforeSlash(file_name) IN
         IF top = <<"user">> THEN "Server"
         ELSE IF top = <<"BepInEx">> THEN "Client"
         ELSE "Unknown"

\* ZipData::new
ZipData(data, zip_path) ==
    [data |-> data, hash |-> Digest(data), zip_path |-> zip_path,
     file_type |-> file_parser(zip_path)]

\* a variant of should_install that extracts only the target's own entries
should_install_own_kind(zip_data, target) ==
    zip_data.file_type = target

\* ZipData::should_install
should_install(zip_data, target) ==
    \/ zip_data.file_type = "Client" /\ target = "Client"
    \/ zip_data.file_type = "Server"

\* the loop of install_mod over the archive's entries: the buffer is
\* cleared only after an entry that was installed
RECURSIVE InstallLoop(_, _, _, _, _, _)
InstallLoop(entries, target, buffer, map, files, counter) ==
    IF entries = <<>> THEN [map |-> map, files |-> files, counter |-> counter]
    ELSE LET filled == buffer \o Head(entries).data
             zip_data == ZipData(filled, Head(entries).path)
         IN  IF ~should_install(zip_data, target)
             THEN InstallLoop(Tail(entries), target, filled, map, files, counter)
             ELSE InstallLoop(Tail(entries), target, <<>>,
                              Put(map, zip_data.zip_path, zip_data.hash),
                              Put(files, zip_data.zip_path, zip_data.data),
                              counter + 1)

\* a variant of install_mod that adds its entries to the record it finds
install_mod_merging(files, index, entries, name, target) ==
    LET done == InstallLoop(entries, target, <<>>, <<>>, files, 0)
        key == NameToFileName(name)
        old == IF key \in DOMAIN index THEN index[key] ELSE <<>>
    IN  IF done.counter = 0
        THEN [ok |-> FALSE, files |-> files, index |-> index, written |-> {}]
        ELSE [ok |-> TRUE, files |-> done.files,
              index |-> Put(index, key,
                            [p \in (DOMAIN old) \cup (DOMAIN done.map) |->
                                IF p \in DOMAIN done.map THEN done.map[p] ELSE old[p]]),
              written |-> DOMAIN done.map]

\* a variant of install_mod that writes the record before it counts the
\* installed entries
install_mod_record_first(files, index, entries, name, target) ==
    LET done == InstallLoop(entries, target, <<>>, <<>>, files, 0) IN
    [ok |-> done.counter # 0, files |-> done.files,
     index |-> Put(index, NameToFileName(name), done.map),
     written |-> DOMAIN done.map]

\* SptAccess::install_mod: the files written, the record and the outcome
install_mod(files, index, entries, name, target) ==
    LET done == InstallLoop(entries, target, <<>>, <<>>, files, 0) IN
    IF done.counter = 0
    THEN [ok |-> FALSE, files |-> files, index |-> index, written |-> {}]
    ELSE [ok |-> TRUE, files |-> done.files,
          index |-> Put(index, NameToFileName(name), done.map),
          written |-> DOMAIN done.map]

\* the loop of is_same_installed_version over the archive's entries
RECURSIVE CheckLoop(_, _, _, _)
CheckLoop(entries, target, buffer, map) ==
    IF entries = <<>> THEN TRUE
    ELSE LET filled == buffer \o Head(entries).data
             zip_data == ZipData(filled, Head(entries).path)
         IN  IF ~should_install(zip_data, target)
             THEN CheckLoop(Tail(entries), target, filled, map)
             ELSE IF ~(zip_data.zip_path \in DOMAIN map
                       /\ map[zip_data.zip_path] = zip_data.hash)
             THEN FALSE
             ELSE CheckLoop(Tail(entries), target, <<>>, map)

\* a variant of the check's loop that forgets the bytes of a skipped entry
RECURSIVE CheckLoopClearing(_, _, _)
CheckLoopClearing(entries, target, map) ==
    IF entries = <<>> THEN TRUE
    ELSE LET zip_data == ZipData(Head(entries).data, Head(entries).path) IN
         IF ~should_install(zip_data, target)
         THEN CheckLoopClearing(Tail(entries), target, map)
         ELSE IF ~(zip_data.zip_path \in DOMAIN map
                   /\ map[zip_data.zip_path] = zip_data.hash)
         THEN FALSE
         ELSE CheckLoopClearing(Tail(entries), target, map)

\* a variant of the check that compares each entry alone with the record
is_same_per_entry(index, entries, name, target) ==
    IF NameToFileName(name) \notin DOMAIN index THEN FALSE
    ELSE CheckLoopClearing(entries, target, index[NameToFileName(name)])

\* a variant of the check that also hashes the files found in the game tree
is_same_on_disk(index, entries, name, target) ==
    IF NameToFileName(name) \notin DOMAIN index THEN FALSE
    ELSE /\ CheckLoop(entries, target, <<>>, index[NameToFileName(name)])
         /\ \A path \in DOMAIN index[NameToFileName(name)] :
                /\ path \in DOMAIN gameFiles
                /\ Digest(gameFiles[path]) = index[NameToFileName(name)][path]

\* SptAccess::is_same_installed_version
is_same_installed_version(index, entries, name, target) ==
    IF NameToFileName(name) \notin DOMAIN index THEN FALSE
    ELSE CheckLoop(entries, target, <<>>, index[NameToFileName(name)])

InstallMod ==
    \E name \in InstallNames, target \in Targets :
        LET out == install_mod(gameFiles, installIndex, archive, name, target) IN
        /\ gameFiles' = out.files
        /\ installIndex' = out.index
        /\ lastInstall' = [name |-> name, target |-> target, ok |-> out.ok,
                           written |-> out.written]
        /\ mutated' = {}
        /\ lastCheck' = NoCheck
        /\ UNCHANGED archive
        /\ InstallOnly

IsSameInstalledVersion ==
    \E name \in InstallNames, target \in Targets :
        /\ lastCheck' = [valid |-> TRUE, name |-> name, target |-> target,
                         result |-> is_same_installed_version(installIndex, archive,
                                                              name, target)]
        /\ UNCHANGED <<archive, gameFiles, installIndex, lastInstall, mutated>>
        /\ InstallOnly

\* an installed file is changed on disk by something other than the installer
MutateInstalledFile ==
    /\ lastInstall.ok
    /\ \E path \in lastInstall.written \ mutated :
         /\ gameFiles' = Put(gameFiles, path, TamperedBytes)
         /\ mutated' = mutated \cup {path}
    /\ lastCheck' = NoCheck
    /\ UNCHANGED <<archive, installIndex, lastInstall>>
    /\ InstallOnly

\* the install_hash folder as a run finds it: without a record, or with a
\* record file that holds an empty mapping
FoundRecords == {<<>>, [key \in {NameToFileName(NameOther)} |-> <<>>]}

InitInstall ==
    /\ archive \in Archives
    /\ gameFiles = <<>>
    /\ installIndex \in FoundRecords
    /\ lastInstall = NoInstall
    /\ mutated = {}
    /\ lastCheck = NoCheck

NextInstall ==
    \/ InstallMod
    \/ IsSameInstalledVersion
    \/ MutateInstalledFile

----------------------------------------------------------------------------
(* Source references: ModKind::parse *)

\* a url is a sequence of tokens: a host, then "/", "-", digits and words
HostSpt == "https://hub.sp-tarkov.com"
GITHUB_DOMAIN == "https://github.com"
HostOther == "https://example.com"
Hosts == {HostSpt, GITHUB_DOMAIN, HostOther}

Digits == {"1"}
TailTokens == {"/", "-", "1", "w"}

SptFilesPath == <<"/", "files", "/", "file", "/">>

Tails == UNION {[1..n -> TailTokens] : n \in 0..MaxTail}

Urls == {<<host>> \o path \o tail :
            host \in Hosts, path \in {<<>>, SptFilesPath}, tail \in Tails}

PatternOptions == {None, Some(<<>>), Some(<<"zip">>)}
FilterOptions == {None, Some(<<"x">>)}

starts_with(s, prefix) ==
    Len(s) >= Len(prefix) /\ SubSeq(s, 1, Len(prefix)) = prefix

ends_with(s, token) == s # <<>> /\ s[Len(s)] = token

Has(s, token) == \E i \in DOMAIN s : s[i] = token

\* the position of the first occurrence of a token the sequence has
First(s, token) ==
    CHOOSE i \in DOMAIN s : s[i] = token /\ \A j \in 1..(i - 1) : s[j] # token

Drop(s, n) == SubSeq(s, n + 1, Len(s))

ParseErr == [ok |-> FALSE, owner |-> <<>>, repo |-> <<>>]

\* github_mod_repository::validate_url
GitHubValidateUrl(input) ==
    IF ~starts_with(input, <<GITHUB_DOMAIN, "/">>) THEN ParseErr
    ELSE LET r1 == Drop(input, 2) IN
         IF ~Has(r1, "/") THEN ParseErr
         ELSE LET owner == SubSeq(r1, 1, First(r1, "/") - 1)
                  r2 == Drop(r1, First(r1, "/"))
                  repo == IF Has(r2, "/") THEN SubSeq(r2, 1, First(r2, "/") - 1)
                          ELSE r2
              IN  [ok |-> TRUE, owner |-> owner, repo |-> repo]

\* spt_client::validate_url
SptValidateUrl(input) ==
    IF ~starts_with(input, <<HostSpt>> \o SptFilesPath) THEN FALSE
    ELSE LET r1 == Drop(input, 1 + Len(SptFilesPath)) IN
         IF ~Has(r1, "-") \/ First(r1, "-") = 1 THEN FALSE
         ELSE LET numbers == SubSeq(r1, 1, First(r1, "-") - 1)
                  r2 == Drop(r1, Len(numbers))
              IN  IF \E i \in DOMAIN numbers : numbers[i] \notin Digits THEN FALSE
                  ELSE IF ~Has(r2, "/") THEN TRUE
                  ELSE Drop(r2, First(r2, "/")) = <<>>

ErrSptUrl == "Failed to parse SP Tarkov url"
ErrNoAssetPattern == "No asset pattern was provided for Github"
ErrGitHubUrl == "Failed to parse"
ErrUnsupportedHost == "Unsupported mod host"
NoError == "none"

ParseFailure(error) ==
    [ok |-> FALSE, error |-> error, kind |-> "none", link |-> <<>>,
     owner |-> <<>>, repo |-> <<>>, asset_pattern |-> <<>>, asset_filter |-> None]

\* a variant of SptLink::parse that stores the url as it was given
SptLinkParseVerbatim(url) ==
    IF ~SptValidateUrl(url) THEN ParseFailure(ErrSptUrl)
    ELSE [ok |-> TRUE, error |-> NoError, kind |-> "SpTarkov", link |-> url,
          owner |-> <<>>, repo |-> <<>>, asset_pattern |-> <<>>, asset_filter |-> None]

\* SptLink::parse: the stored link always ends with "/"
SptLinkParse(url) ==
    IF ~SptValidateUrl(url) THEN ParseFailure(ErrSptUrl)
    ELSE [ok |-> TRUE, error |-> NoError, kind |-> "SpTarkov",
          link |-> IF ~ends_with(url, "/") THEN url \o <<"/">> ELSE url,
          owner |-> <<>>, repo |-> <<>>, asset_pattern |-> <<>>, asset_filter |-> None]

\* GitHubLink::parse
GitHubLinkParse(url, asset_pattern, asset_filter) ==
    LET parsed == GitHubValidateUrl(url) IN
    IF ~parsed.ok THEN ParseFailure(ErrGitHubUrl)
    ELSE [ok |-> TRUE, error |-> NoError, kind |-> "GitHub", link |-> <<>>,
          owner |-> parsed.owner, repo |-> parsed.repo,
          asset_pattern |-> asset_pattern, asset_filter |-> asset_filter]

\* a variant of ModKind::parse that reads the GitHub url before it asks for
\* the asset pattern
ModKindParseUrlFirst(url, gh_pattern, gh_filter) ==
    IF starts_with(url, <<HostSpt>>) THEN SptLinkParse(url)
    ELSE IF starts_with(url, <<GITHUB_DOMAIN>>)
    THEN IF ~GitHubValidateUrl(url).ok THEN ParseFailure(ErrGitHubUrl)
         ELSE IF ~gh_pattern.some THEN ParseFailure(ErrNoAssetPattern)
         ELSE GitHubLinkParse(url, gh_pattern.val, gh_filter)
    ELSE ParseFailure(ErrUnsupportedHost)

\* ModKind::parse
ModKindParse(url, gh_pattern, gh_filter) ==
    IF starts_with(url, <<HostSpt>>) THEN SptLinkParse(url)
    ELSE IF starts_with(url, <<GITHUB_DOMAIN>>)
    THEN IF ~gh_pattern.some THEN ParseFailure(ErrNoAssetPattern)
         ELSE GitHubLinkParse(url, gh_pattern.val, gh_filter)
    ELSE ParseFailure(ErrUnsupportedHost)

NotParsed == [done |-> FALSE, value |-> ParseFailure(NoError)]

Parse ==
    /\ ~parseResult.done
    /\ parseResult' = [done |-> TRUE,
                       value |-> ModKindParse(parseInput.url, parseInput.gh_pattern,
                                              parseInput.gh_filter)]
    /\ UNCHANGED parseInput
    /\ ParseOnly

InitParse ==
    /\ parseInput \in [url : Urls, gh_pattern : PatternOptions, gh_filter : FilterOptions]
    /\ parseResult = NotParsed

IdleParse ==
    /\ parseInput = [url |-> <<>>, gh_pattern |-> None, gh_filter |-> None]
    /\ parseResult = NotParsed

NextParse == Parse

----------------------------------------------------------------------------
(* The update loop of the console front end *)

UrlGitHubRepo == <<GITHUB_DOMAIN, "/", "w", "/", "w">>
UrlOtherHost == <<HostOther, "/", "w">>

\* a configured mod: its url, whether a version is pinned and whether an
\* install path is given
ConfiguredMods ==
    [url : {UrlGitHubRepo, UrlOtherHost}, version : BOOLEAN, install_path : BOOLEAN]

Configs == UNION {[1..n -> ConfiguredMods] : n \in 0..MaxMods}

\* `continue`, or the end of the loop body: on to the next configured mod
Continue ==
    /\ updPos' = updPos + 1
    /\ updStep' = IF updPos + 1 > Len(updConfig) THEN "returned" ELSE "parse"

\* a failure the loop body matches on: it is printed and the loop goes on
ReportAndContinue ==
    /\ failed' = failed \cup {updPos}
    /\ reported' = reported \cup {updPos}
    /\ Continue

\* a failure passed to `?`: update returns it and the loop ends
Propagate ==
    /\ failed' = failed \cup {updPos}
    /\ updStep' = "failed"
    /\ UNCHANGED <<updPos, reported>>

UpdateParse ==
    /\ updStep = "parse"
    /\ attempted' = attempted \cup {updPos}
    /\ IF ModKindParse(updConfig[updPos].url, Some(<<"zip">>), None).ok
       THEN /\ updStep' = "resolve"
            /\ UNCHANGED <<updPos, reported, failed>>
       ELSE ReportAndContinue
    /\ UNCHANGED <<updConfig, checked, pathFiles>>
    /\ UpdateOnly

\* get_newest_release or get_specific_version: a cached version, an error,
\* or (for a pinned version only) no such version
UpdateResolve ==
    /\ updStep = "resolve"
    /\ \E outcome \in {"found", "error"}
                      \cup (IF updConfig[updPos].version THEN {"missing"} ELSE {}) :
         IF outcome = "found"
         THEN /\ updStep' = IF updConfig[updPos].install_path THEN "extract" ELSE "check"
              /\ UNCHANGED <<updPos, reported, failed>>
         ELSE ReportAndContinue
    /\ UNCHANGED <<updConfig, attempted, checked, pathFiles>>
    /\ UpdateOnly

\* a variant of install_mod_to_path that extracts what a server install would
install_mod_to_path_classified(dir, entries) ==
    LET kept == {e \in Range(entries) : should_install(ZipData(e.data, e.path), "Server")}
    IN  [path \in DOMAIN dir \cup {e.path : e \in kept} |->
           IF \E e \in kept : e.path = path
           THEN (CHOOSE e \in kept : e.path = path).data
           ELSE dir[path]]

\* install_mod_to_path: uncompress_archive writes every entry of the archive
\* under the given directory
install_mod_to_path(dir, entries) ==
    [path \in DOMAIN dir \cup {entries[i].path : i \in DOMAIN entries} |->
       IF \E i \in DOMAIN entries : entries[i].path = path
       THEN (CHOOSE e \in Range(entries) : e.path = path).data
       ELSE dir[path]]

\* install_mod_to_path(..)?
UpdateInstallToPath ==
    /\ updStep = "extract"
    /\ \E ok \in BOOLEAN :
         IF ok
         THEN /\ pathFiles' = install_mod_to_path(pathFiles, archive)
              /\ Continue
              /\ UNCHANGED <<reported, failed>>
         ELSE /\ Propagate
              /\ UNCHANGED pathFiles
    /\ UNCHANGED <<updConfig, attempted, checked>>
    /\ UpdateOnly

\* is_same_installed_version(..)?
UpdateCheck ==
    /\ updStep = "check"
    /\ \E outcome \in {"same", "differs", "error"} :
         CASE outcome = "same" -> Continue /\ UNCHANGED <<reported, failed>>
           [] outcome = "differs" -> /\ updStep' = "install"
                                     /\ UNCHANGED <<updPos, reported, failed>>
           [] outcome = "error" -> Propagate
    /\ checked' = checked \cup {updPos}
    /\ UNCHANGED <<updConfig, attempted, pathFiles>>
    /\ UpdateOnly

\* match install_mod(..)
UpdateInstall ==
    /\ updStep = "install"
    /\ \E ok \in BOOLEAN :
         IF ok THEN Continue /\ UNCHANGED <<reported, failed>>
         ELSE ReportAndContinue
    /\ UNCHANGED <<updConfig, attempted, checked, pathFiles>>
    /\ UpdateOnly

\* the archives of the cached versions the loop installs: two entries
UpdateArchives ==
    {<<[path |-> p, data |-> <<1>>], [path |-> q, data |-> <<2>>]>> :
        p \in {PathServerMod, PathReadme}, q \in {PathClientPlugin, PathDocs}}

\* nothing is installed yet when update starts
InstallHoldsArchive ==
    /\ archive \in UpdateArchives
    /\ gameFiles = <<>>
    /\ installIndex = <<>>
    /\ lastInstall = NoInstall
    /\ mutated = {}
    /\ lastCheck = NoCheck

InitUpdate ==
    /\ updConfig \in Configs
    /\ updPos = 1
    /\ updStep = IF updConfig = <<>> THEN "returned" ELSE "parse"
    /\ attempted = {}
    /\ reported = {}
    /\ failed = {}
    /\ checked = {}
    /\ pathFiles = <<>>

IdleUpdate ==
    /\ updConfig = <<>>
    /\ updPos = 1
    /\ updStep = "returned"
    /\ attempted = {}
    /\ reported = {}
    /\ failed = {}
    /\ checked = {}
    /\ pathFiles = <<>>

NextUpdate ==
    \/ UpdateParse
    \/ UpdateResolve
    \/ UpdateInstallToPath
    \/ UpdateCheck
    \/ UpdateInstall

----------------------------------------------------------------------------
(* The GitHub client: GithubModRepository::get_client *)

\* Duration::from_secs(1), in ticks of half a second
request_interval == 2

\* a variant of the deadline that does not wait for the interval
SleepDeadlineNone(last, interval) == last

\* the instant get_client sleeps until
SleepDeadline(last, interval) == last + interval

\* time passes, whatever the caller is doing
Tick ==
    /\ now < MaxTime
    /\ now' = now + 1
    /\ UNCHANGED <<last_request, ghStep, ghDeadline, ghReleases>>
    /\ ThrottleOnly

\* get_latest_version or get_version calls get_client, which takes &mut self:
\* no second call begins before the first has returned
GetClientCall ==
    /\ ghStep = "idle"
    /\ ghStep' = "sleeping"
    /\ ghDeadline' = SleepDeadline(last_request, request_interval)
    /\ UNCHANGED <<now, last_request, ghReleases>>
    /\ ThrottleOnly

\* sleep_until(..).await completes, never before its deadline
GetClientWake ==
    /\ ghStep = "sleeping"
    /\ now >= ghDeadline
    /\ ghStep' = "woken"
    /\ UNCHANGED <<now, last_request, ghDeadline, ghReleases>>
    /\ ThrottleOnly

\* self.last_request = Instant::now(); &self.octo: the request is released
GetClientReturn ==
    /\ ghStep = "woken"
    /\ last_request' = now
    /\ ghReleases' = Append(ghReleases,
                            [at |-> now, previous |-> last_request, recorded |-> now])
    /\ ghStep' = "request"
    /\ UNCHANGED <<now, ghDeadline>>
    /\ ThrottleOnly

\* the request made with the client ends, with a response or an error
RequestEnds ==
    /\ ghStep = "request"
    /\ ghStep' = "idle"
    /\ UNCHANGED <<now, last_request, ghDeadline, ghReleases>>
    /\ ThrottleOnly

\* GithubModRepository::new: the first request does not wait
InitThrottle ==
    /\ now = request_interval
    /\ last_request = now - request_interval
    /\ ghStep = "idle"
    /\ ghDeadline = 0
    /\ ghReleases = <<>>

IdleThrottle ==
    /\ now = request_interval
    /\ last_request = 0
    /\ ghStep = "idle"
    /\ ghDeadline = 0
    /\ ghReleases = <<>>

NextThrottle ==
    \/ Tick
    \/ GetClientCall
    \/ GetClientWake
    \/ GetClientReturn
    \/ RequestEnds

----------------------------------------------------------------------------
(* A rebuild of one folder, step by step, next to another process *)

\* the folder of the mod "c" as the program may find it when it starts: the
\* archives and manifests of three versions, each there or not
ScanDisks ==
    LET folder == NameToFileName(NameOther)
        versions == Versions \cup {LeftoverVersion}
        Archive(v) == PathOf(folder, to_file_name(v, RemoteFileName(KindGhOther)))
        Manifest(v) == PathOf(folder, create_manifest_path(Archive(v).name))
    IN  {[p \in {Archive(v) : v \in A} \cup {Manifest(v) : v \in M} |->
            IF is_manifest(CacheFile(p))
            THEN ManifestContent(NameOther, CHOOSE v \in versions : Manifest(v) = p,
                                 KindGhOther)
            ELSE ArchiveBytes]
         : A \in SUBSET versions, M \in SUBSET versions}

IdleScan == scan = [step |-> "idle", pending |-> {}, index |-> <<>>, raced |-> FALSE]

\* get_all_files and the first loop of clean_unmanaged_files_and_build_cache:
\* the folder is listed, the versions are built and the files outside
\* to_keep are still to be deleted
ScanList ==
    /\ scan.step = "idle"
    /\ \E out \in calculate_cache(cacheDirs, cacheFiles) :
         scan' = [step |-> "listed", pending |-> out.deleted, index |-> out.cached_mods,
                  raced |-> FALSE]
    /\ UNCHANGED cacheVars
    /\ ScanOnly

\* another process removes a file the rebuild has listed and not yet deleted
OtherProcessRemoves ==
    /\ scan.step = "listed"
    /\ \E p \in scan.pending \cap DOMAIN cacheFiles :
         cacheFiles' = Without(cacheFiles, {p})
    /\ scan' = [scan EXCEPT !.raced = TRUE]
    /\ UNCHANGED <<cacheDirs, cached_mods, populates, drops, cacheOp>>
    /\ ScanOnly

\* one round of the second loop: file.delete().await?, where remove_file
\* fails on a file that is no longer there and `?` ends the rebuild
ScanDelete ==
    /\ scan.step = "listed"
    /\ \E p \in scan.pending :
         IF p \in DOMAIN cacheFiles
         THEN /\ cacheFiles' = Without(cacheFiles, {p})
              /\ scan' = [scan EXCEPT !.pending = @ \ {p}]
         ELSE /\ scan' = [scan EXCEPT !.step = "failed"]
              /\ UNCHANGED cacheFiles
    /\ UNCHANGED <<cacheDirs, cached_mods, populates, drops, cacheOp>>
    /\ ScanOnly

\* the second loop ends and calculate_cache returns the index
ScanReturn ==
    /\ scan.step = "listed"
    /\ scan.pending = {}
    /\ cached_mods' = scan.index
    /\ scan' = [scan EXCEPT !.step = "done"]
    /\ UNCHANGED <<cacheDirs, cacheFiles, populates, drops, cacheOp>>
    /\ ScanOnly

InitScan ==
    /\ cacheDirs = {NameToFileName(NameOther)}
    /\ cacheFiles \in ScanDisks
    /\ cached_mods = <<>>
    /\ populates = 0
    /\ drops = 0
    /\ cacheOp = CacheOp("init", <<>>, <<0, 0>>, StatusNone, FALSE, TRUE, FALSE, FALSE, {},
                         NoVersion)
    /\ IdleScan

NextScan ==
    \/ ScanList
    \/ OtherProcessRemoves
    \/ ScanDelete
    \/ ScanReturn

----------------------------------------------------------------------------
(* Functions of the program applied to one argument *)

NotApplied == [done |-> FALSE, value |-> <<>>]

IdlePure ==
    /\ fnInput = [fn |-> "none", text |-> <<>>, present |-> FALSE, version |-> <<0, 0>>]
    /\ fnOutput = NotApplied

\* paths of archive entries, by their components and separators
PathTokens == {"user", "mods", "BepInEx", "plugins", "x", "/"}
ClassifiedPaths == UNION {[1..n -> PathTokens] : n \in 0..MaxPath}

\* ZipData::new classifies the path of an entry
ApplyFileParser ==
    /\ fnInput.fn = "file_parser"
    /\ ~fnOutput.done
    /\ fnOutput' = [done |-> TRUE, value |-> file_parser(fnInput.text)]
    /\ UNCHANGED fnInput
    /\ PureOnly

\* display names of releases, character by character
NameChars == {"v", ".", "0", "1"}
ReleaseNames == UNION {[1..n -> NameChars] : n \in 0..MaxName}

is_dec_digit(c) == c \in {"0", "1"}
DigitValue(c) == IF c = "1" THEN 1 ELSE 0

\* take_till(0.., AsChar::is_dec_digit): what is left from the first digit on
RECURSIVE FromFirstDigit(_)
FromFirstDigit(s) ==
    IF s = <<>> \/ is_dec_digit(Head(s)) THEN s ELSE FromFirstDigit(Tail(s))

\* the number the leading digits of s spell, and what follows them
RECURSIVE LeadingNumber(_, _)
LeadingNumber(s, acc) ==
    IF s = <<>> \/ ~is_dec_digit(Head(s)) THEN [value |-> acc, rest |-> s]
    ELSE LeadingNumber(Tail(s), 10 * acc + DigitValue(Head(s)))

\* Versioning::parse on text that begins with a digit: numeric chunks
\* separated by dots, as far as they go
RECURSIVE NumericChunks(_, _)
NumericChunks(s, acc) ==
    LET n == LeadingNumber(s, 0)
        chunks == Append(acc, n.value)
    IN  IF Len(n.rest) >= 2 /\ n.rest[1] = "." /\ is_dec_digit(n.rest[2])
        THEN NumericChunks(Tail(n.rest), chunks)
        ELSE chunks

\* github_mod_repository::parse_version(..).ok().flatten()
parse_version(version) ==
    LET remainder == FromFirstDigit(version) IN
    IF remainder = <<>> THEN None ELSE Some(NumericChunks(remainder, <<>>))

\* str::contains
Contains(s, sub) ==
    \E i \in 1..(Len(s) - Len(sub) + 1) : SubSeq(s, i, i + Len(sub) - 1) = sub

GhErr == [ok |-> FALSE, some |-> FALSE, version |-> <<>>]

\* GithubModRepository::get_latest_version, for a latest release that has an
\* asset matching the pattern
get_latest_version(has_name, name) ==
    IF ~has_name THEN GhErr
    ELSE LET version == parse_version(name) IN
         IF ~version.some THEN GhErr
         ELSE [ok |-> TRUE, some |-> TRUE, version |-> version.val]

\* GithubModRepository::get_version, for a repository that lists at most one
\* release, which has an asset matching the pattern
get_version_of_release(listed, name, version) ==
    IF ~(listed /\ Contains(name, VersionToString(version)))
    THEN [ok |-> TRUE, some |-> FALSE, version |-> <<>>]
    ELSE [ok |-> TRUE, some |-> TRUE, version |-> version]

ApplyGetLatestVersion ==
    /\ fnInput.fn = "get_latest_version"
    /\ ~fnOutput.done
    /\ fnOutput' = [done |-> TRUE,
                    value |-> get_latest_version(fnInput.present, fnInput.text)]
    /\ UNCHANGED fnInput
    /\ PureOnly

ApplyGetVersion ==
    /\ fnInput.fn = "get_version"
    /\ ~fnOutput.done
    /\ fnOutput' = [done |-> TRUE,
                    value |-> get_version_of_release(fnInput.present, fnInput.text,
                                                     fnInput.version)]
    /\ UNCHANGED fnInput
    /\ PureOnly

\* file names, by their parts and dots
FileNameTokens == {".", "a", "zip"}
SeparatedNames == UNION {[1..n -> FileNameTokens] : n \in 0..MaxFileName}

ApplySeparateFileAndExt ==
    /\ fnInput.fn = "separate_file_and_ext"
    /\ ~fnOutput.done
    /\ fnOutput' = [done |-> TRUE, value |-> separate_file_and_ext(fnInput.text)]
    /\ UNCHANGED fnInput
    /\ PureOnly

InitPure ==
    /\ fnInput \in
         [fn : {"file_parser"}, text : ClassifiedPaths, present : {TRUE},
          version : {<<0, 0>>}]
         \cup [fn : {"get_latest_version"}, text : ReleaseNames, present : BOOLEAN,
               version : {<<0, 0>>}]
         \cup [fn : {"get_version"}, text : ReleaseNames, present : BOOLEAN,
               version : Versions]
         \cup [fn : {"separate_file_and_ext"}, text : SeparatedNames, present : {TRUE},
               version : {<<0, 0>>}]
    /\ fnOutput = NotApplied

NextPure ==
    \/ ApplyFileParser
    \/ ApplyGetLatestVersion
    \/ ApplyGetVersion
    \/ ApplySeparateFileAndExt

----------------------------------------------------------------------------
(* Specifications: each moves one part of the program, the others rest *)

InitSpecCache ==
    InitCache /\ IdleInstall /\ IdleParse /\ IdleUpdate /\ IdleThrottle /\ IdleScan /\ IdlePure
InitSpecInstall ==
    InitCache /\ InitInstall /\ IdleParse /\ IdleUpdate /\ IdleThrottle /\ IdleScan /\ IdlePure
InitSpecParse ==
    InitCache /\ IdleInstall /\ InitParse /\ IdleUpdate /\ IdleThrottle /\ IdleScan /\ IdlePure
InitSpecUpdate ==
    /\ InitCache /\ InstallHoldsArchive /\ IdleParse /\ InitUpdate /\ IdleThrottle
    /\ IdleScan /\ IdlePure
InitSpecThrottle ==
    InitCache /\ IdleInstall /\ IdleParse /\ IdleUpdate /\ InitThrottle /\ IdleScan /\ IdlePure

SpecCache == InitSpecCache /\ [][NextCache]_vars

InitSpecInterrupt ==
    InitCache /\ IdleInstall /\ IdleParse /\ IdleUpdate /\ IdleThrottle /\ IdleScan /\ IdlePure

SpecInterrupt == InitSpecInterrupt /\ [][NextInterrupt]_vars

SpecInstall == InitSpecInstall /\ [][NextInstall]_vars

SpecParse == InitSpecParse /\ [][NextParse]_vars

SpecUpdate == InitSpecUpdate /\ [][NextUpdate]_vars

SpecThrottle == InitSpecThrottle /\ [][NextThrottle]_vars

InitSpecPure ==
    InitCache /\ IdleInstall /\ IdleParse /\ IdleUpdate /\ IdleThrottle /\ IdleScan /\ InitPure

SpecPure == InitSpecPure /\ [][NextPure]_vars

InitSpecScan ==
    InitScan /\ IdleInstall /\ IdleParse /\ IdleUpdate /\ IdleThrottle /\ IdlePure

SpecScan == InitSpecScan /\ [][NextScan]_vars

----------------------------------------------------------------------------
(* Claims about the cache *)

\* versions a candidate can carry, cached or not
CandidateVersions == Versions \cup {<<0, 1>>, <<2, 0>>, <<2, 1>>}

VersionBelow(a, b) == a[1] < b[1] \/ (a[1] = b[1] /\ a[2] < b[2])

\* the versions the index holds under a name
HeldUnder(name) ==
    UNION {{cached_mods[i].versions[j].manifest.version : j \in DOMAIN cached_mods[i].versions}
           : i \in {k \in DOMAIN cached_mods : cached_mods[k].name = name}}

ExpectedStatus(name, version) ==
    LET held == HeldUnder(name) IN
    IF held = {} THEN "NotCached"
    ELSE LET top == CHOOSE m \in held : \A w \in held : ~VersionBelow(m, w) IN
         IF VersionBelow(version, top) THEN "NewerVersion"
         ELSE IF version = top THEN "SameVersion"
         ELSE "OlderVersion"

\* C1: get_status returns NotCached when no cached mod has the candidate's
\* name, and otherwise NewerVersion, SameVersion or OlderVersion as the
\* candidate's version is below, equal to or above the maximum version
\* cached under that name.
C1_StatusComparesWithMaximum ==
    \A name \in Names, version \in CandidateVersions :
        get_status(cached_mods, name, version) = ExpectedStatus(name, version)

\* a cache where one name holds two versions, a candidate falls below, on
\* and above the maximum, and another name is not cached
C1_Witness ==
    \E name \in Names, other \in Names :
        /\ Cardinality(HeldUnder(name)) = 2
        /\ get_status(cached_mods, name, <<1, 0>>) = "NewerVersion"
        /\ get_status(cached_mods, name, <<1, 1>>) = "SameVersion"
        /\ get_status(cached_mods, name, <<2, 0>>) = "OlderVersion"
        /\ get_status(cached_mods, other, <<1, 0>>) = "NotCached"

\* C2 as stated: on both resolution paths cache_mod is called only when the
\* status is NotCached or OlderVersion, never on SameVersion or NewerVersion.
C2_DownloadOnlyWhenNotCachedOrOlder ==
    cacheOp.op \in {"newest", "specific"} /\ cacheOp.downloaded
        => cacheOp.status \in {"NotCached", "OlderVersion"}

\* C2 amended: get_newest_release calls cache_mod exactly on NotCached and
\* OlderVersion; get_specific_version calls it on NotCached, OlderVersion and
\* NewerVersion and answers from the cache only on SameVersion.
C2_DownloadPerPath ==
    /\ cacheOp.op = "newest" /\ cacheOp.status # StatusNone =>
         (cacheOp.downloaded <=> cacheOp.status \in {"NotCached", "OlderVersion"})
    /\ cacheOp.op = "specific" /\ cacheOp.status # StatusNone =>
         (cacheOp.downloaded <=>
            cacheOp.status \in {"NotCached", "OlderVersion", "NewerVersion"})

\* get_specific_version downloading a version older than the cached newest
C2_Witness ==
    /\ cacheOp.op = "specific"
    /\ cacheOp.downloaded
    /\ cacheOp.status = "NewerVersion"

\* C3: after cache_mod succeeds for name N and version V on a cache that
\* held nothing for N, the rebuilt index lists exactly one CachedModVersion
\* of version V under N and get_cached_mod(N, V) returns it.
C3_CacheRoundTrip ==
    cacheOp.downloaded /\ cacheOp.ok /\ cacheOp.fresh =>
        LET found == get_cached_mod(cached_mods, cacheOp.name, cacheOp.version) IN
        /\ Cardinality({<<i, j>> \in (DOMAIN cached_mods) \X (1..(2 * MaxPopulate + MaxDrop)) :
                          /\ cached_mods[i].name = cacheOp.name
                          /\ j \in DOMAIN cached_mods[i].versions
                          /\ cached_mods[i].versions[j].manifest.version = cacheOp.version})
             = 1
        /\ found.some
        /\ found.val.manifest.version = cacheOp.version
        /\ found.val.manifest.name = cacheOp.name

\* files of the cache directory that are manifests without a pair
OrphanManifests(files, dir) ==
    LET vec == get_all_files(files, dir) IN
    {cf.path : cf \in {m \in vec : /\ is_manifest(m)
                                   /\ \A f \in vec : f.file_name = m.file_name
                                                       => f.path = m.path}}

\* C8: a rebuild pass leaves no manifest without a paired archive, and a
\* second pass on the resulting directory deletes nothing and changes
\* nothing.
C8_OrphanCleanupIdempotent ==
    cacheOp.rebuilt =>
        /\ \A dir \in cacheDirs : OrphanManifests(cacheFiles, dir) = {}
        /\ \A out \in calculate_cache(cacheDirs, cacheFiles) :
              out.deleted = {} /\ out.files = cacheFiles

\* a rebuild that deleted a manifest no archive was paired with
C8_Witness ==
    /\ cacheOp.rebuilt
    /\ \E p \in cacheOp.deleted :
         /\ is_manifest(CacheFile(p))
         /\ \A q \in (cacheOp.deleted \cup DOMAIN cacheFiles) :
              q.dir = p.dir /\ CacheFile(q).file_name = CacheFile(p).file_name => q = p

----------------------------------------------------------------------------
(* Claims about the installer *)

\* the entries of the archive that an install for the target extracts
Extracted(target) ==
    {i \in DOMAIN archive :
        file_parser(archive[i].path) \in
            (IF target = "Client" THEN {"Server", "Client"} ELSE {"Server"})}

ExtractedPaths(target) == {archive[i].path : i \in Extracted(target)}

\* C4: an install for the Client target extracts every Client and every
\* Server entry, an install for the Server target extracts only the Server
\* entries, and an Unknown entry is never extracted under either target.
C4_InstallTargetAsymmetry ==
    /\ lastInstall.target \in Targets =>
          lastInstall.written = ExtractedPaths(lastInstall.target)
    /\ lastInstall.written \subseteq DOMAIN gameFiles
    /\ \A path \in DOMAIN gameFiles : file_parser(path) # "Unknown"

\* an install for the Client target that extracted a Server and a Client entry
C4_Witness ==
    /\ lastInstall.ok
    /\ lastInstall.target = "Client"
    /\ lastInstall.written = {PathServerMod, PathClientPlugin}

\* C5: after an install, each installed entry's file holds exactly that
\* entry's own bytes and the recorded hash is the digest of those bytes.
C5_InstalledBytesExact ==
    (lastInstall.ok /\ mutated = {}) =>
        \A i \in Extracted(lastInstall.target) :
            /\ gameFiles[archive[i].path] = archive[i].data
            /\ installIndex[NameToFileName(lastInstall.name)][archive[i].path]
                 = Digest(archive[i].data)

\* the last check was made after the last install, with its mod and target
CheckedAfterInstall ==
    /\ lastInstall.ok
    /\ lastCheck.valid
    /\ lastCheck.name = lastInstall.name
    /\ lastCheck.target = lastInstall.target

----------------------------------------------------------------------------
(* Claims about source references and the update loop *)

\* C9 as stated: when the update loop ends, every configured mod was
\* attempted and every failure was reported.
C9_EveryModAttempted ==
    updStep \in {"returned", "failed"} =>
        /\ attempted = DOMAIN updConfig
        /\ failed \subseteq reported

\* C10: a GitHub url without an asset pattern fails with the "no asset
\* pattern" error whatever follows the host, a url of neither host fails
\* with the "unsupported host" error, the two errors differ, and a url of
\* the SP Tarkov host is never answered with either of them.
C10_HostDispatch ==
    parseResult.done =>
        LET url == parseInput.url
            out == parseResult.value
        IN  /\ ErrNoAssetPattern # ErrUnsupportedHost
            /\ starts_with(url, <<GITHUB_DOMAIN>>) /\ ~parseInput.gh_pattern.some =>
                  ~out.ok /\ out.error = ErrNoAssetPattern
            /\ ~starts_with(url, <<GITHUB_DOMAIN>>) /\ ~starts_with(url, <<HostSpt>>) =>
                  ~out.ok /\ out.error = ErrUnsupportedHost
            /\ starts_with(url, <<HostSpt>>) =>
                  /\ out.error \notin {ErrNoAssetPattern, ErrUnsupportedHost}
                  /\ out = SptLinkParse(url)
            /\ out.error = ErrUnsupportedHost => url[1] = HostOther

\* a GitHub url that names no repository, parsed without an asset pattern
C10_Witness ==
    /\ parseResult.done
    /\ starts_with(parseInput.url, <<GITHUB_DOMAIN>>)
    /\ ~GitHubValidateUrl(parseInput.url).ok
    /\ ~parseInput.gh_pattern.some
    /\ parseResult.value.error = ErrNoAssetPattern

\* the persisted record of the mod the last install was for
LastRecord == installIndex[NameToFileName(lastInstall.name)]

\* C11: after a successful install the record of the mod name has exactly
\* one entry for each entry the install extracted and no other entry,
\* whatever record the name had before, and each entry's hash is the digest
\* of the bytes the install wrote to that path.
C11_RecordIsExactlyTheInstall ==
    lastInstall.ok =>
        /\ NameToFileName(lastInstall.name) \in DOMAIN installIndex
        /\ DOMAIN LastRecord = ExtractedPaths(lastInstall.target)
        /\ DOMAIN LastRecord = lastInstall.written
        /\ \A path \in DOMAIN LastRecord \ mutated :
              LastRecord[path] = Digest(gameFiles[path])

\* an install for Server of an archive with a Server and a Client entry,
\* made after an install for Client under the same name
C11_Witness ==
    /\ lastInstall.ok
    /\ lastInstall.target = "Server"
    /\ DOMAIN LastRecord = {PathServerMod}
    /\ PathClientPlugin \in DOMAIN gameFiles
    /\ DOMAIN installIndex = {NameToFileName(lastInstall.name)}

\* C12: an install for a target no entry of the archive matches fails, and
\* a failed install leaves the game root and the install records as they
\* were.
C12_FailedInstallChangesNothing ==
    /\ [](lastInstall.target \in Targets /\ Extracted(lastInstall.target) = {}
             => ~lastInstall.ok)
    /\ [][~lastInstall'.ok /\ lastInstall'.target \in Targets
             => gameFiles' = gameFiles /\ installIndex' = installIndex]_vars

\* a failed install for Server of a mod that has files and a record from an
\* install for Client
C12_Witness ==
    /\ ~lastInstall.ok
    /\ lastInstall.target = "Server"
    /\ NameToFileName(lastInstall.name) \in DOMAIN installIndex
    /\ PathClientPlugin \in DOMAIN gameFiles

\* C13: the check returns false whenever the record of the mod name is
\* absent or is an empty mapping, for every archive and either target.
C13_NoRecordMeansReinstall ==
    lastCheck.valid =>
        LET key == NameToFileName(lastCheck.name) IN
        (key \notin DOMAIN installIndex \/ installIndex[key] = <<>>)
            => ~lastCheck.result

----------------------------------------------------------------------------
(* Claims about the explicit-path install *)

\* the files the archive's entries are, each with its own bytes
ArchiveVerbatim == [path \in {archive[i].path : i \in DOMAIN archive} |->
                      (CHOOSE e \in Range(archive) : e.path = path).data]

\* C14: the explicit-path install writes every entry of the archive, whatever
\* file_parser makes of its path, with its own bytes under the given directory
\* and changes neither the install records nor the game tree; update sends a
\* configured mod with an install path to that install and to no other step,
\* so is_same_installed_version is never asked about it
C14_ExplicitPathInstall ==
    /\ [](pathFiles # <<>> => pathFiles = ArchiveVerbatim)
    /\ [](updStep = "extract" => updConfig[updPos].install_path)
    /\ [](updStep \in {"check", "install"} => ~updConfig[updPos].install_path)
    /\ [](\A i \in checked : ~updConfig[i].install_path)
    /\ [][updStep = "extract" =>
            /\ installIndex' = installIndex
            /\ gameFiles' = gameFiles
            /\ updStep' # "failed" => pathFiles' = ArchiveVerbatim]_vars

\* an archive with two entries of unknown classification was extracted for the
\* first configured mod, and the second one went through the check
C14_Witness ==
    /\ updStep = "returned"
    /\ Len(updConfig) = 2
    /\ updConfig[1].install_path
    /\ checked = {2}
    /\ failed = {}
    /\ DOMAIN pathFiles = {PathReadme, PathDocs}
    /\ installIndex = <<>>

----------------------------------------------------------------------------
(* Claims about the GitHub client *)

\* C15: every request released through one GithubModRepository is released at
\* least request_interval after the timestamp the previous release recorded
\* (for the first one, the timestamp new() set), and each release records its
\* own timestamp, which is the one the next release is measured against
C15_RequestsKeepTheInterval ==
    /\ \A i \in DOMAIN ghReleases :
          /\ ghReleases[i].at >= ghReleases[i].previous + request_interval
          /\ ghReleases[i].recorded >= ghReleases[i].at
          /\ ghReleases[i].recorded > ghReleases[i].previous
          /\ i > 1 => ghReleases[i].previous = ghReleases[i - 1].recorded
    /\ ghReleases # <<>> => last_request = ghReleases[Len(ghReleases)].recorded

\* the first request left without waiting, the second exactly one interval
\* later and a third one later still
C15_Witness ==
    /\ Len(ghReleases) = 3
    /\ ghReleases[1].at = request_interval
    /\ ghReleases[2].at = ghReleases[1].recorded + request_interval
    /\ ghReleases[3].at > ghReleases[2].recorded + request_interval

----------------------------------------------------------------------------
(* Claims about the asset pattern *)

\* C16: every GitHub source reference ModKind::parse produces carries a
\* non-empty asset pattern, whatever the url and the configured pattern
C16_AssetPatternNonEmpty ==
    parseResult.done /\ parseResult.value.ok /\ parseResult.value.kind = "GitHub" =>
        parseResult.value.asset_pattern # <<>>

----------------------------------------------------------------------------
(* Claims about answers from the cache *)

\* C17: when get_status says SameVersion or NewerVersion for the latest remote
\* version, get_newest_release ends without an error, whatever versions the
\* cache holds
C17_NoWorkNeededSucceeds ==
    cacheOp.op = "newest" /\ cacheOp.status \in {"SameVersion", "NewerVersion"} =>
        cacheOp.ok

\* C18: the version a successful cache_mod returns is the one it populated:
\* its manifest names the downloadable's mod and version, whatever else the
\* cache holds
C18_ReturnsThePopulatedVersion ==
    cacheOp.downloaded /\ cacheOp.ok =>
        /\ cacheOp.returned.some
        /\ cacheOp.returned.val.manifest.name = cacheOp.name
        /\ cacheOp.returned.val.manifest.version = cacheOp.version

\* C19: after populate operations alone, every version a CachedMod holds has
\* a manifest with that CachedMod's name and source reference, so a lookup by
\* source reference and version returns an archive of that source reference
C19_OneReferencePerCachedMod ==
    drops = 0 =>
        /\ \A i \in DOMAIN cached_mods :
              \A j \in DOMAIN cached_mods[i].versions :
                 /\ cached_mods[i].versions[j].manifest.name = cached_mods[i].name
                 /\ cached_mods[i].versions[j].manifest.mod_kind = cached_mods[i].mod_kind
        /\ \A mod_kind \in Kinds, version \in Versions :
              LET found == get_cached_mod_from_kind(cached_mods, mod_kind, version)
              IN  found.some => found.val.manifest.mod_kind = mod_kind

----------------------------------------------------------------------------
(* Claims about what a rebuild leaves on disk *)

\* C20: after a rebuild every file left in a per-mod folder is a manifest
\* that parses, next to exactly one file of its base name that is no
\* manifest, or that one file next to such a manifest; so no file without a
\* pair and no manifest that fails to parse is left
C20_RebuildLeavesPairsOnly ==
    cacheOp.rebuilt =>
        LET left == [p \in DOMAIN cacheFiles |-> CacheFile(p)]
            SameBase(p) == {q \in DOMAIN left : /\ q.dir = p.dir
                                                /\ left[q].file_name = left[p].file_name}
            Manifests(p) == {q \in SameBase(p) : is_manifest(left[q])}
        IN  \A p \in DOMAIN left :
               /\ p.dir \in cacheDirs
               /\ Cardinality(Manifests(p)) = 1
               /\ Cardinality(SameBase(p) \ Manifests(p)) = 1
               /\ \A m \in Manifests(p) : ParsesAsManifest(cacheFiles[m])

\* a rebuild that deleted a manifest which had its archive but did not parse,
\* and the archive with it, and kept a pair
C20_Witness ==
    /\ cacheOp.rebuilt
    /\ cacheFiles # <<>>
    /\ \E p, q \in cacheOp.deleted :
         /\ is_manifest(CacheFile(p))
         /\ ~is_manifest(CacheFile(q))
         /\ q.dir = p.dir
         /\ CacheFile(q).file_name = CacheFile(p).file_name

----------------------------------------------------------------------------
(* Claims about the index after a mutation *)

\* C21: after cache_mod or remove_cache the index is a result of a fresh scan
\* of the cache directory: one CachedMod for each folder that holds a valid
\* pair, none for a folder without one, and the versions of a CachedMod are
\* the archives left in its folder, each with the manifest left next to it
C21_IndexIsAFreshScan ==
    cacheOp.rebuilt /\ cacheOp.op \in {"newest", "specific", "remove"} =>
        LET left == [p \in DOMAIN cacheFiles |-> CacheFile(p)]
            ArchivesIn(dir) == {p \in DOMAIN left : p.dir = dir /\ ~is_manifest(left[p])}
            FolderOf(mod) == mod.versions[1].path.dir
        IN  /\ cached_mods \in {o.cached_mods : o \in calculate_cache(cacheDirs, cacheFiles)}
            /\ \A dir \in cacheDirs :
                  Cardinality({i \in DOMAIN cached_mods : FolderOf(cached_mods[i]) = dir})
                     = IF ArchivesIn(dir) = {} THEN 0 ELSE 1
            /\ \A i \in DOMAIN cached_mods :
                  LET versions == cached_mods[i].versions IN
                  /\ {versions[j].path : j \in DOMAIN versions}
                        = ArchivesIn(FolderOf(cached_mods[i]))
                  /\ \A j, k \in DOMAIN versions :
                        versions[j].path = versions[k].path => j = k
                  /\ \A j \in DOMAIN versions :
                        \E m \in DOMAIN left :
                           /\ m.dir = versions[j].path.dir
                           /\ is_manifest(left[m])
                           /\ left[m].file_name = left[versions[j].path].file_name
                           /\ cacheFiles[m] = versions[j].manifest

\* a cache_mod whose scan emptied one folder and listed another
C21_Witness ==
    /\ cacheOp.downloaded
    /\ cacheOp.rebuilt
    /\ cacheOp.deleted # {}
    /\ cached_mods # <<>>
    /\ \E dir \in cacheDirs : \A p \in DOMAIN cacheFiles : p.dir # dir

----------------------------------------------------------------------------
(* Claims about an interrupted populate *)

\* C22: the archive an interrupted cache_mod left behind is deleted by the
\* next rebuild and is never a version of the index, whatever the cache held
\* before
C22_TruncatedArchiveNeverIndexed ==
    cacheOp.rebuilt =>
        /\ \A p \in DOMAIN cacheFiles : cacheFiles[p] # TruncatedBytes
        /\ \A i \in DOMAIN cached_mods :
              \A j \in DOMAIN cached_mods[i].versions :
                 cached_mods[i].versions[j].path \in DOMAIN cacheFiles =>
                    cacheFiles[cached_mods[i].versions[j].path] # TruncatedBytes

----------------------------------------------------------------------------
(* Claims about a rebuild next to another process *)

\* C23: when another process removes an orphan between the listing and the
\* deletion of that file, the rebuild does not fail, and the index it returns
\* is the one of the valid pairs left on disk
C23_RemovedOrphanTolerated ==
    scan.raced =>
        /\ scan.step # "failed"
        /\ scan.step = "done" =>
              cached_mods \in {o.cached_mods : o \in calculate_cache(cacheDirs, cacheFiles)}

----------------------------------------------------------------------------
(* Claims about the classification of entries *)

\* C24: an entry is Server exactly when its path starts with user/mods/,
\* Client exactly when it starts with BepInEx/plugins/, and Unknown otherwise
C24_ClassifiedByRootPrefix ==
    fnOutput.done /\ fnInput.fn = "file_parser" =>
        LET path == fnInput.text
            server == starts_with(path, <<"user", "/", "mods", "/">>)
            client == starts_with(path, <<"BepInEx", "/", "plugins", "/">>)
        IN  fnOutput.value = IF server THEN "Server"
                             ELSE IF client THEN "Client" ELSE "Unknown"

----------------------------------------------------------------------------
(* Claims about the check across targets *)

\* C25: after a successful install for the Client target, the check for the
\* same archive and mod name with the Server target returns true, in
\* whatever order the archive lists its entries
C25_ServerCheckAfterClientInstall ==
    /\ lastInstall.ok /\ lastInstall.target = "Client"
    /\ lastCheck.valid /\ lastCheck.target = "Server"
    /\ lastCheck.name = lastInstall.name
    /\ mutated = {}
    => lastCheck.result

\* C26: the check returns true only for an archive of which the target
\* installs at least one entry, so that install_mod for the same archive and
\* target would not fail for want of entries
C26_TrueOnlyIfInstallable ==
    lastCheck.valid /\ lastCheck.result =>
        /\ Extracted(lastCheck.target) # {}
        /\ install_mod(gameFiles, installIndex, archive, lastCheck.name,
                       lastCheck.target).ok

----------------------------------------------------------------------------
(* Claims about the records of different mods *)

\* C27: a step that installs a mod leaves the record of every mod with
\* another display name as it was, so the record of a name is always the one
\* the latest successful install of that name wrote
C27_RecordsKeyedByDisplayName ==
    [][\A name \in InstallNames :
          name # lastInstall'.name =>
             LET key == NameToFileName(name) IN
             /\ key \in DOMAIN installIndex' <=> key \in DOMAIN installIndex
             /\ key \in DOMAIN installIndex => installIndex'[key] = installIndex[key]]_vars

----------------------------------------------------------------------------
(* Claims about the version of a GitHub release *)

\* C28: on both GitHub paths the version of the returned ModDownloadVersion
\* is the one parsed from the selected release's display name behind its
\* non-digit prefix, and a selected release whose name does not parse gives
\* an error
C28_VersionFromReleaseName ==
    /\ fnOutput.done
    /\ fnInput.fn \in {"get_latest_version", "get_version"}
    /\ fnInput.present
    /\ fnInput.fn = "get_version" =>
          Contains(fnInput.text, VersionToString(fnInput.version))
    => LET parsed == parse_version(fnInput.text) IN
       IF parsed.some
       THEN fnOutput.value.ok /\ fnOutput.value.some
            /\ fnOutput.value.version = parsed.val
       ELSE ~fnOutput.value.ok

----------------------------------------------------------------------------
(* Claims about mod-hub source references *)

\* https://hub.sp-tarkov.com/files/file/<digits>-<slug>, the slug free of "/"
IsHubFileUrl(url) ==
    /\ starts_with(url, <<HostSpt>> \o SptFilesPath)
    /\ LET rest == Drop(url, 1 + Len(SptFilesPath)) IN
       \E n \in 1..(Len(rest) - 1) :
          /\ \A i \in 1..n : rest[i] \in Digits
          /\ rest[n + 1] = "-"
          /\ \A i \in (n + 2)..Len(rest) : rest[i] # "/"

\* C29: every mod-hub reference that parsing produces has a url ending in
\* "/": a hub file url is accepted without the trailing slash, which is then
\* appended, and with it, and it is rejected when anything follows the
\* trailing slash.
C29_HubLinkEndsInSlash ==
    parseResult.done /\ starts_with(parseInput.url, <<HostSpt>>) =>
        LET url == parseInput.url
            out == parseResult.value
        IN  /\ out.ok => /\ out.kind = "SpTarkov"
                          /\ ends_with(out.link, "/")
                          /\ out.link = IF ends_with(url, "/") THEN url
                                        ELSE url \o <<"/">>
            /\ IsHubFileUrl(url) => out.ok
            /\ ends_with(url, "/") /\ IsHubFileUrl(SubSeq(url, 1, Len(url) - 1))
                  => out.ok
            /\ (\E k \in 1..(Len(url) - 1) :
                    url[k] = "/" /\ IsHubFileUrl(SubSeq(url, 1, k - 1)))
                  => ~out.ok
            /\ out.ok => \/ IsHubFileUrl(url)
                         \/ IsHubFileUrl(SubSeq(url, 1, Len(url) - 1))

\* a hub file url given without the trailing slash is stored with it
C29_Witness ==
    /\ parseResult.done
    /\ parseResult.value.ok
    /\ parseResult.value.kind = "SpTarkov"
    /\ IsHubFileUrl(parseInput.url)
    /\ ~ends_with(parseInput.url, "/")
    /\ parseResult.value.link = parseInput.url \o <<"/">>

----------------------------------------------------------------------------
(* Claims about file names *)

LastDot(s) == CHOOSE i \in DOMAIN s : s[i] = "." /\ \A j \in (i + 1)..Len(s) : s[j] # "."

\* C30 as the specification words it: the name is cut at its first dot,
\* what follows that dot is the extension and what precedes it the base
\* name, and a name without a dot has no extension.
C30_SplitsAtFirstDot ==
    fnOutput.done /\ fnInput.fn = "separate_file_and_ext" =>
        LET name == fnInput.text IN
        IF ~HasDot(name)
        THEN fnOutput.value = [file_name |-> name, file_ext |-> None]
        ELSE /\ fnOutput.value.file_name = SubSeq(name, 1, FirstDot(name) - 1)
             /\ fnOutput.value.file_ext =
                   Some(SubSeq(name, FirstDot(name) + 1, Len(name)))

\* C30: separate_file_and_ext cuts the name at its last dot: the base name
\* is everything before that dot, earlier dots included, the extension is
\* that dot and what follows it, the two put together give the name back,
\* and a name without a dot is its own base name and has no extension.
C30_SplitsAtLastDot ==
    fnOutput.done /\ fnInput.fn = "separate_file_and_ext" =>
        LET name == fnInput.text IN
        IF ~HasDot(name)
        THEN fnOutput.value = [file_name |-> name, file_ext |-> None]
        ELSE /\ fnOutput.value.file_name = SubSeq(name, 1, LastDot(name) - 1)
             /\ fnOutput.value.file_ext =
                   Some(SubSeq(name, LastDot(name), Len(name)))
             /\ fnOutput.value.file_name \o fnOutput.value.file_ext.val = name

\* a name with two dots is separated: the first dot stays in the base name
C30_Witness ==
    /\ fnOutput.done
    /\ fnInput = [fn |-> "separate_file_and_ext", text |-> <<"a", ".", "a", ".", "zip">>,
                  present |-> TRUE, version |-> <<0, 0>>]
    /\ fnOutput.value = [file_name |-> <<"a", ".", "a">>,
                         file_ext |-> Some(<<".", "zip">>)]

=============================================================================
